---------------------------- MODULE Spec2Model ----------------------------
(***************************************************************************)
(* StockAnalysis: acquisition, caching and exponential-trend analysis.     *)
(*                                                                         *)
(* Numbers.  Python floats are modelled exactly, as records                *)
(*   [kind |-> "num", n |-> numerator, d |-> denominator]  (reduced, d>0)  *)
(*   [kind |-> "nan", ...]    float('nan')                                 *)
(*   [kind |-> "-inf", ...]   -inf, the value of np.log(0)                 *)
(* np.log is taken in units of ln 2 (a price 2^k has logarithm k).  The    *)
(* fitted slope is thereby scaled by the positive constant 1/ln 2, which   *)
(* leaves its sign and the coefficient of determination unchanged.  Prices *)
(* are powers of 2^HIST_DATA_YEARS, so that logarithms and the root taken  *)
(* by determine_cagr are exact rationals.                                  *)
(***************************************************************************)
EXTENDS Integers, Sequences, FiniteSets

VARIABLES
    pc,               \* position of the running call
    read_from_cache,  \* get_symbol_data argument
    num_symbols,      \* get_symbol_data / get_and_cache_data argument
    cache,            \* the file cache.pkl: [exists, bytes]
    market,           \* what the providers hold for each listed symbol
    idx,              \* position of the for loop in symbols
    i,                \* get_and_cache_data's counter i
    symbol_data_list, \* the batch being accumulated / analysed
    k,                \* position of analyse_symbols' for loop
    gap,              \* seconds slept since the last market-data call
    backToBack,       \* a market-data call was issued with gap < REQUEST_DELAY
    contacted,        \* some market-data call has been issued
    error,            \* the exception that ended the run, "" if none
    fresh,            \* the batch as get_symbol_data returned it
    arg,              \* argument of a directly called function
    ret,              \* its result
    overwrote         \* the last save replaced a different, non-empty batch

vars == <<pc, read_from_cache, num_symbols, cache, market, idx, i,
          symbol_data_list, k, gap, backToBack, contacted, error, fresh,
          arg, ret, overwrote>>

---------------------------------------------------------------------------
(* Bounds of the model *)

MaxCands == 3
MaxTarget == 3
MaxLen == 4
MaxBatch == 2

(* Program constants *)

REQUEST_DELAY == 2
HIST_DATA_YEARS == 5
R2ThresholdNum == 4
R2ThresholdDen == 5

---------------------------------------------------------------------------
(* Exact arithmetic on floats *)

Abs(x) == IF x < 0 THEN -x ELSE x

RECURSIVE GCD(_, _)
GCD(a, b) == IF b = 0 THEN a ELSE GCD(b, a % b)

Q(n, d) ==
    LET g == GCD(Abs(n), Abs(d))
        s == IF d < 0 THEN -1 ELSE 1
    IN  [kind |-> "num", n |-> (s * n) \div g, d |-> (s * d) \div g]

Num(n) == [kind |-> "num", n |-> n, d |-> 1]
NaN == [kind |-> "nan", n |-> 0, d |-> 1]
NegInf == [kind |-> "-inf", n |-> 0, d |-> 1]
None == [kind |-> "None", n |-> 0, d |-> 1]

IsNum(x) == x.kind = "num"

Sub(x, y) == Q(x.n * y.d - y.n * x.d, x.d * y.d)
Add(x, y) == Q(x.n * y.d + y.n * x.d, x.d * y.d)
Mul(x, y) == Q(x.n * y.n, x.d * y.d)
Div(x, y) == Q(x.n * y.d, x.d * y.n)
\* a comparison with nan is False, as in IEEE 754
Geq(x, y) == IsNum(x) /\ IsNum(y) /\ x.n * y.d >= y.n * x.d
Gt(x, y) == IsNum(x) /\ IsNum(y) /\ x.n * y.d > y.n * x.d

RECURSIVE Pow(_, _)
Pow(b, e) == IF e = 0 THEN 1 ELSE b * Pow(b, e - 1)

RECURSIVE Log2(_)
Log2(n) == IF n <= 1 THEN 0 ELSE 1 + Log2(n \div 2)

RECURSIVE RootFrom(_, _, _)
RootFrom(r, x, y) == IF Pow(r, y) >= x THEN r ELSE RootFrom(r + 1, x, y)

\* x ** (1/y) for x a perfect y-th power
Root(x, y) == RootFrom(0, x, y)

RECURSIVE SumSeq(_)
SumSeq(s) == IF s = <<>> THEN 0 ELSE Head(s) + SumSeq(Tail(s))

---------------------------------------------------------------------------
(* data_analysis.py *)

dropna(data) == SelectSeq(data, LAMBDA x : x.kind # "nan")

\* np.log of one price
np_log(x) ==
    IF ~IsNum(x) THEN NaN
    ELSE IF x.n > 0 THEN Num(Log2(x.n))
    ELSE IF x.n = 0 THEN NegInf
    ELSE NaN

log_prices_of(data) == [t \in 1..Len(data) |-> np_log(data[t])]

\* sums of the normal equations, time index 0..n-1
Sx(n) == SumSeq([t \in 1..n |-> t - 1])
Sxx(n) == SumSeq([t \in 1..n |-> (t - 1) * (t - 1)])
Sy(ys) == SumSeq([t \in 1..Len(ys) |-> ys[t].n])
Sxy(ys) == SumSeq([t \in 1..Len(ys) |-> (t - 1) * ys[t].n])

\* LinearRegression().fit(time_index, log_prices): sklearn validates its
\* input (at least one sample, every value finite) and raises ValueError
FitRaises(ys) == Len(ys) = 0 \/ \E t \in 1..Len(ys) : ~IsNum(ys[t])

\* model.coef_[0][0]
Slope(ys) ==
    LET n == Len(ys)
    IN  IF n < 2 THEN Num(0)
        ELSE Q(n * Sxy(ys) - Sx(n) * Sy(ys), n * Sxx(n) - Sx(n) * Sx(n))

\* model.intercept_
Intercept(ys) ==
    LET n == Len(ys)
    IN  Div(Sub(Num(Sy(ys)), Mul(Slope(ys), Num(Sx(n)))), Num(n))

\* model.predict(time_index)
Predict(ys) ==
    [t \in 1..Len(ys) |-> Add(Intercept(ys), Mul(Slope(ys), Num(t - 1)))]

SqSum(xs) ==
    LET RECURSIVE go(_)
        go(j) == IF j > Len(xs) THEN Num(0) ELSE Add(Mul(xs[j], xs[j]), go(j + 1))
    IN  go(1)

\* sklearn.metrics.r2_score(y_true, y_pred): nan below two samples; with a
\* zero total sum of squares 1.0 for a perfect prediction, else 0.0
r2_score(y_true, y_pred) ==
    LET n == Len(y_true)
        mean == Div(Num(Sy(y_true)), Num(n))
        ss_res == SqSum([t \in 1..n |-> Sub(y_true[t], y_pred[t])])
        ss_tot == SqSum([t \in 1..n |-> Sub(y_true[t], mean)])
    IN  IF n < 2 THEN NaN
        ELSE IF ss_tot.n # 0 THEN Sub(Num(1), Div(ss_res, ss_tot))
        ELSE IF ss_res.n = 0 THEN Num(1)
        ELSE Num(0)

r2_threshold == Q(R2ThresholdNum, R2ThresholdDen)

\* np.exp(predicted_log_prices): the price 2^e is kept as its exponent e
np_exp(es) == [t \in 1..Len(es) |-> [exp2 |-> es[t]]]

\* faulty variant: the slope is not tested
MutClassifiedIgnoringSlope(r2, slope) == Geq(r2, r2_threshold)

\* the test of line 42, with r2 = nan comparing False
Classified(r2, slope) == Geq(r2, r2_threshold) /\ Gt(slope, Num(0))

determine_exp_trend(series) ==
    LET data == dropna(series)
        log_prices == log_prices_of(data)
    IN  IF FitRaises(log_prices)
        THEN [raised |-> TRUE, is_exponential |-> FALSE, r2 |-> None,
              predicted |-> <<>>]
        ELSE LET predicted_log_prices == Predict(log_prices)
                 r2 == r2_score(log_prices, predicted_log_prices)
                 slope == Slope(log_prices)
             IN  IF Classified(r2, slope)
                 THEN [raised |-> FALSE, is_exponential |-> TRUE, r2 |-> r2,
                       predicted |-> np_exp(predicted_log_prices)]
                 ELSE [raised |-> FALSE, is_exponential |-> FALSE,
                       r2 |-> None, predicted |-> <<>>]

\* (final_price / initial_price) ** (1/years) - 1, on the data as stored
\* (missing observations not dropped)
determine_cagr(data, years) ==
    LET initial_price == data[1]
        final_price == data[Len(data)]
    IN  IF ~IsNum(initial_price) \/ ~IsNum(final_price) THEN NaN
        ELSE Sub(Q(Root(final_price.n, years), Root(initial_price.n, years)),
                 Num(1))

---------------------------------------------------------------------------
(* Inputs *)

Prices == {NaN, Num(-1), Num(0), Num(1), Num(32), Num(1024)}

RECURSIVE SeqsUpTo(_, _)
SeqsUpTo(S, n) ==
    IF n = 0 THEN {<<>>}
    ELSE LET shorter == SeqsUpTo(S, n - 1)
         IN  shorter \cup {Append(s, x) : s \in {q \in shorter : Len(q) = n - 1}, x \in S}

Idle ==
    /\ read_from_cache = FALSE /\ num_symbols = 0
    /\ cache = [exists |-> FALSE, bytes |-> <<>>]
    /\ market = <<>> /\ idx = 1 /\ i = 0 /\ symbol_data_list = <<>>
    /\ k = 1 /\ gap = REQUEST_DELAY /\ backToBack = FALSE
    /\ contacted = FALSE /\ error = "" /\ fresh = <<>>
    /\ overwrote = FALSE

---------------------------------------------------------------------------
(* data_manager.py: records and the cache file *)

Zero == Num(0)

SymbolData(symbol_info, symbol_hist_data, r2, cagr) ==
    [symbol_info |-> symbol_info, symbol_hist_data |-> symbol_hist_data,
     r2 |-> r2, cagr |-> cagr]

RECURSIVE Flatten(_)
Flatten(ss) == IF ss = <<>> THEN <<>> ELSE Head(ss) \o Flatten(Tail(ss))

\* pickle.dump: the object graph written as one flat stream
\*   count, then per record: symbol_info, series length, the series, r2, cagr
dump_record(rec) ==
    <<Num(rec.symbol_info), Num(Len(rec.symbol_hist_data))>>
        \o rec.symbol_hist_data \o <<rec.r2, rec.cagr>>

dumps(batch) ==
    <<Num(Len(batch))>>
        \o Flatten([j \in 1..Len(batch) |-> dump_record(batch[j])])

\* pickle.load: reads the first object of the stream and ignores what
\* follows it; a stream that ends early raises
RECURSIVE load_records(_, _, _, _)
load_records(bytes, pos, count, acc) ==
    IF count = 0 THEN [raised |-> "", value |-> acc]
    ELSE IF pos + 1 > Len(bytes) \/ ~IsNum(bytes[pos]) \/ ~IsNum(bytes[pos + 1])
    THEN [raised |-> "UnpicklingError", value |-> <<>>]
    ELSE LET m == bytes[pos + 1].n
             last == pos + 1 + m + 2
         IN  IF m < 0 \/ last > Len(bytes)
             THEN [raised |-> "UnpicklingError", value |-> <<>>]
             ELSE load_records(bytes, last + 1, count - 1,
                      Append(acc, SymbolData(bytes[pos].n,
                                             SubSeq(bytes, pos + 2, pos + 1 + m),
                                             bytes[last - 1], bytes[last])))

loads(bytes) ==
    IF bytes = <<>> THEN [raised |-> "EOFError", value |-> <<>>]
    ELSE IF ~IsNum(bytes[1]) \/ bytes[1].n < 0
    THEN [raised |-> "UnpicklingError", value |-> <<>>]
    ELSE load_records(bytes, 2, bytes[1].n, <<>>)

\* faulty variant: the file opened for appending ("ab") instead of "wb"
MutCacheAppend(file, batch) ==
    [exists |-> TRUE, bytes |-> file.bytes \o dumps(batch)]

\* open(CACHE_FILENAME, "wb") truncates, pickle.dump writes
cache_symbol_data(file, batch) ==
    [exists |-> TRUE, bytes |-> dumps(batch)]

\* open(CACHE_FILENAME, "rb") raises on a missing file
load_cached_symbol_data(file) ==
    IF ~file.exists THEN [raised |-> "FileNotFoundError", value |-> <<>>]
    ELSE loads(file.bytes)

NoFile == [exists |-> FALSE, bytes |-> <<>>]

---------------------------------------------------------------------------
(* determine_exp_trend called on every bounded series *)

InitTrend ==
    /\ Idle
    /\ pc = "call"
    /\ arg \in SeqsUpTo(Prices, MaxLen)
    /\ ret = None

CallDetermineExpTrend ==
    /\ pc = "call"
    /\ ret' = determine_exp_trend(arg)
    /\ pc' = IF ret'.raised THEN "raised" ELSE "returned"
    /\ UNCHANGED <<read_from_cache, num_symbols, cache, market, idx, i,
                   symbol_data_list, k, gap, backToBack, contacted, error,
                   fresh, arg, overwrote>>

NextTrend == CallDetermineExpTrend

SpecTrend == InitTrend /\ [][NextTrend]_vars

---------------------------------------------------------------------------
(* save and load called on bounded batches *)

Growth == <<Num(1), Num(32), Num(1024)>>
Decay == <<Num(1024), Num(32), Num(1)>>
Single == <<Num(32)>>
NonPositive == <<Num(1), Num(0), Num(32)>>
Missing == <<NaN>>
Gappy == <<NaN, Num(1), Num(32), Num(1024)>>

CacheRecords ==
    {SymbolData(s, h, m[1], m[2]) :
        s \in {1, 2}, h \in {Single, Gappy},
        m \in {<<Zero, Zero>>, <<Q(9, 10), Num(3)>>}}

InitCache ==
    /\ Idle
    /\ pc = "idle"
    /\ arg = <<>>
    /\ ret = None

SaveBatch ==
    /\ pc \in {"idle", "saved", "loaded", "load_failed"}
    /\ \E b \in SeqsUpTo(CacheRecords, MaxBatch) :
          /\ cache' = cache_symbol_data(cache, b)
          /\ overwrote' = (cache.exists /\ arg # <<>> /\ arg # b)
          /\ arg' = b
    /\ ret' = None
    /\ pc' = "saved"
    /\ UNCHANGED <<read_from_cache, num_symbols, market, idx, i,
                   symbol_data_list, k, gap, backToBack, contacted, error,
                   fresh>>

LoadBatch ==
    /\ pc \in {"idle", "saved"}
    /\ ret' = load_cached_symbol_data(cache)
    /\ pc' = IF ret'.raised # "" THEN "load_failed" ELSE "loaded"
    /\ UNCHANGED <<read_from_cache, num_symbols, cache, market, idx, i,
                   symbol_data_list, k, gap, backToBack, contacted, error,
                   fresh, arg, overwrote>>

NextCache == SaveBatch \/ LoadBatch

SpecCache == InitCache /\ [][NextCache]_vars

---------------------------------------------------------------------------
(* main(): get_symbol_data, then analyse_symbols *)

\* what the providers hold for one listed symbol: whether it trades, and its
\* daily closes (<<>>: no history)
MarketEntries ==
    {[valid |-> FALSE, hist |-> <<>>]}
        \cup {[valid |-> TRUE, hist |-> h] :
                h \in {<<>>, Growth, Decay, Single, NonPositive, Missing, Gappy}}

Usable(e) == e.valid /\ e.hist # <<>>

\* batches an earlier run left in the cache
PriorBatches ==
    {<<SymbolData(1, Growth, Zero, Zero), SymbolData(2, Single, Zero, Zero)>>,
     <<SymbolData(1, Decay, Zero, Zero), SymbolData(2, NonPositive, Zero, Zero),
       SymbolData(3, Growth, Zero, Zero)>>}

InitialCaches ==
    {NoFile, [exists |-> TRUE, bytes |-> <<>>]}
        \cup {cache_symbol_data(NoFile, b) : b \in PriorBatches}
        \cup {[exists |-> TRUE, bytes |-> SubSeq(dumps(b), 1, Len(dumps(b)) - 1)] :
                b \in PriorBatches}

Init ==
    /\ pc = "main"
    /\ read_from_cache \in BOOLEAN
    /\ num_symbols \in 0..MaxTarget
    /\ cache \in InitialCaches
    /\ market = <<>> /\ idx = 1 /\ i = 0 /\ symbol_data_list = <<>>
    /\ k = 1 /\ gap = REQUEST_DELAY /\ backToBack = FALSE
    /\ contacted = FALSE /\ error = "" /\ fresh = <<>>
    /\ arg = <<>> /\ ret = None /\ overwrote = FALSE

\* faulty variant: a failed load answered with an empty batch
MutReadCacheEmptyFallback ==
    /\ pc = "main" /\ read_from_cache
    /\ LET r == load_cached_symbol_data(cache)
       IN  /\ symbol_data_list' = r.value
           /\ fresh' = r.value
    /\ pc' = "analyse"
    /\ UNCHANGED <<read_from_cache, num_symbols, cache, market, idx, i, k,
                   gap, backToBack, contacted, error, arg, ret, overwrote>>

\* get_symbol_data(True, _): return load_cached_symbol_data()
ReadCache ==
    /\ pc = "main" /\ read_from_cache
    /\ LET r == load_cached_symbol_data(cache)
       IN  IF r.raised # ""
           THEN /\ pc' = "raised"
                /\ error' = r.raised
                /\ UNCHANGED <<symbol_data_list, fresh>>
           ELSE /\ pc' = "analyse"
                /\ symbol_data_list' = r.value
                /\ fresh' = r.value
                /\ UNCHANGED error
    /\ UNCHANGED <<read_from_cache, num_symbols, cache, market, idx, i, k,
                   gap, backToBack, contacted, arg, ret, overwrote>>

\* symbols = finnhub_client.get_symbols(); symbol_data_list = []; i = 0
GetSymbols ==
    /\ pc = "main" /\ ~read_from_cache
    /\ \E n \in 0..MaxCands : market' \in [1..n -> MarketEntries]
    /\ idx' = 1 /\ i' = 0 /\ symbol_data_list' = <<>>
    /\ pc' = "loop"
    /\ UNCHANGED <<read_from_cache, num_symbols, cache, k, gap, backToBack,
                   contacted, error, fresh, arg, ret, overwrote>>

\* the directory lookup fails: nothing catches it
GetSymbolsRaises ==
    /\ pc = "main" /\ ~read_from_cache
    /\ pc' = "raised"
    /\ error' = "FinnhubAPIException"
    /\ UNCHANGED <<read_from_cache, num_symbols, cache, market, idx, i,
                   symbol_data_list, k, gap, backToBack, contacted, fresh,
                   arg, ret, overwrote>>

\* faulty variant: the loop left one record late
MutLoopHeadOffByOne ==
    /\ pc = "loop"
    /\ pc' = IF idx > Len(market) \/ i > num_symbols THEN "cache" ELSE "validate"
    /\ UNCHANGED <<read_from_cache, num_symbols, cache, market, idx, i,
                   symbol_data_list, k, gap, backToBack, contacted, error,
                   fresh, arg, ret, overwrote>>

\* for symbol in symbols: if i == num_symbols: break
LoopHead ==
    /\ pc = "loop"
    /\ pc' = IF idx > Len(market) \/ i = num_symbols THEN "cache" ELSE "validate"
    /\ UNCHANGED <<read_from_cache, num_symbols, cache, market, idx, i,
                   symbol_data_list, k, gap, backToBack, contacted, error,
                   fresh, arg, ret, overwrote>>

\* a call to the market-data provider
MarketCall ==
    /\ backToBack' = (backToBack \/ (contacted /\ gap < REQUEST_DELAY))
    /\ contacted' = TRUE
    /\ gap' = 0

\* the candidate is dropped: is_valid False or hist_data None
Skip ==
    /\ idx' = idx + 1
    /\ pc' = "loop"
    /\ UNCHANGED <<i, symbol_data_list>>

\* ticker = yf.Ticker(ticker_symbol); sleep(REQUEST_DELAY).  The try opens
\* before the constructor: if it raises, (False, None) comes back with no
\* sleep and no provider call
ValidateSleep ==
    /\ pc = "validate"
    /\ \E outcome \in (IF market[idx].valid THEN {"ticker"}
                       ELSE {"ticker", "raise"}) :
          IF outcome = "raise"
          THEN Skip /\ UNCHANGED gap
          ELSE /\ gap' = REQUEST_DELAY
               /\ pc' = "history"
               /\ UNCHANGED <<idx, i, symbol_data_list>>
    /\ UNCHANGED <<read_from_cache, num_symbols, cache, market, k,
                   backToBack, contacted, error, fresh, arg, ret, overwrote>>

\* data = ticker.history(period="1d"): empty or an exception give (False, None)
History ==
    /\ pc = "history"
    /\ MarketCall
    /\ \E outcome \in (IF market[idx].valid THEN {"data"}
                       ELSE {"data", "empty", "raise"}) :
          IF outcome = "data"
          THEN pc' = "get_info" /\ UNCHANGED <<idx, i, symbol_data_list>>
          ELSE Skip
    /\ UNCHANGED <<read_from_cache, num_symbols, cache, market, k, error,
                   fresh, arg, ret, overwrote>>

\* return (True, ticker.get_info()): an exception gives (False, None)
GetInfo ==
    /\ pc = "get_info"
    /\ MarketCall
    /\ IF market[idx].valid
       THEN pc' = "download" /\ UNCHANGED <<idx, i, symbol_data_list>>
       ELSE Skip
    /\ UNCHANGED <<read_from_cache, num_symbols, cache, market, k, error,
                   fresh, arg, ret, overwrote>>

\* faulty variant: the download's exception is not caught
MutDownloadPropagates ==
    /\ pc = "download"
    /\ MarketCall
    /\ IF market[idx].hist # <<>>
       THEN pc' = "fetch_sleep" /\ error' = error
       ELSE pc' = "raised" /\ error' = "DownloadError"
    /\ UNCHANGED <<read_from_cache, num_symbols, cache, market, idx, i,
                   symbol_data_list, k, fresh, arg, ret, overwrote>>

\* data = yf.download(...): an exception is caught and gives None
Download ==
    /\ pc = "download"
    /\ MarketCall
    /\ \E outcome \in (IF market[idx].hist # <<>> THEN {"data"}
                       ELSE {"empty", "raise"}) :
          IF outcome = "raise"
          THEN Skip
          ELSE pc' = "fetch_sleep" /\ UNCHANGED <<idx, i, symbol_data_list>>
    /\ UNCHANGED <<read_from_cache, num_symbols, cache, market, k, error,
                   fresh, arg, ret, overwrote>>

\* sleep(REQUEST_DELAY); an empty frame gives None, else the close column
\* comes back and SymbolData(symbol_info, hist_data, 0., 0.) is appended
FetchSleep ==
    /\ pc = "fetch_sleep"
    /\ gap' = REQUEST_DELAY
    /\ IF market[idx].hist = <<>>
       THEN Skip
       ELSE /\ symbol_data_list' =
                  Append(symbol_data_list,
                         SymbolData(idx, market[idx].hist, Zero, Zero))
            /\ i' = i + 1
            /\ idx' = idx + 1
            /\ pc' = "loop"
    /\ UNCHANGED <<read_from_cache, num_symbols, cache, market, k,
                   backToBack, contacted, error, fresh, arg, ret, overwrote>>

\* what the chart step meets outside the record: the info dict without a
\* "symbol" key, a charts directory that cannot be made, a file that cannot
\* be written
PlotOutcomes == {"ok", "no_symbol_key", "makedirs_fails", "savefig_fails"}

\* save_plot_img(symbol_hist_data, symbol_info["symbol"], predicted_values):
\* the exception it ends with, "" if it returns.  plt.plot(data.index,
\* predicted_prices) raises ValueError when the stored series and the
\* prediction (made on the series without its missing observations) differ
\* in length
save_plot_img(data, predicted, outcome) ==
    IF outcome = "no_symbol_key" THEN "KeyError"
    ELSE IF outcome = "makedirs_fails" THEN "OSError"
    ELSE IF Len(data) # Len(predicted) THEN "ValueError"
    ELSE IF outcome = "savefig_fails" THEN "OSError"
    ELSE ""

\* faulty variant: r2 and cagr assigned whatever the classification
MutAnalyseRecordAlways(rec, outcome) ==
    LET t == determine_exp_trend(rec.symbol_hist_data)
    IN  [raised |-> IF t.raised THEN "ValueError" ELSE "",
         rec |-> IF t.raised THEN rec
                 ELSE [rec EXCEPT !.r2 = t.r2,
                                  !.cagr = determine_cagr(rec.symbol_hist_data,
                                                          HIST_DATA_YEARS)]]

\* the body of analyse_symbols' loop for one record: the exception it ends
\* with ("" if none) and the record it leaves.  The chart is drawn before r2
\* and cagr are assigned
analyse_record(rec, outcome) ==
    LET t == determine_exp_trend(rec.symbol_hist_data)
        plot == save_plot_img(rec.symbol_hist_data, t.predicted, outcome)
    IN  IF t.raised THEN [raised |-> "ValueError", rec |-> rec]
        ELSE IF ~t.is_exponential THEN [raised |-> "", rec |-> rec]
        ELSE IF plot # "" THEN [raised |-> plot, rec |-> rec]
        ELSE [raised |-> "",
              rec |-> [rec EXCEPT !.r2 = t.r2,
                                  !.cagr = determine_cagr(rec.symbol_hist_data,
                                                          HIST_DATA_YEARS)]]

\* analyse_symbols(batch), outcomes[j] being what the chart step of record j
\* meets: the loop stops at the first record that raises, and the records
\* after it are not reached
RECURSIVE analyse_from(_, _, _)
analyse_from(batch, outcomes, j) ==
    IF j > Len(batch) THEN [raised |-> "", batch |-> batch]
    ELSE LET a == analyse_record(batch[j], outcomes[j])
         IN  IF a.raised # "" THEN [raised |-> a.raised, batch |-> batch]
             ELSE analyse_from([batch EXCEPT ![j] = a.rec], outcomes, j + 1)

analyse_symbols(batch, outcomes) == analyse_from(batch, outcomes, 1)

\* cache_symbol_data(symbol_data_list); return symbol_data_list
CacheAndReturn ==
    /\ pc = "cache"
    /\ cache' = cache_symbol_data(cache, symbol_data_list)
    /\ fresh' = symbol_data_list
    /\ k' = 1
    /\ pc' = "analyse"
    /\ UNCHANGED <<read_from_cache, num_symbols, market, idx, i,
                   symbol_data_list, gap, backToBack, contacted, error, arg,
                   ret, overwrote>>

\* one iteration of analyse_symbols; an exception of the fit or of the chart
\* step leaves main()
AnalyseStep ==
    /\ pc = "analyse"
    /\ k <= Len(symbol_data_list)
    /\ \E outcome \in PlotOutcomes :
          LET a == analyse_record(symbol_data_list[k], outcome)
          IN  IF a.raised # ""
              THEN /\ pc' = "raised"
                   /\ error' = a.raised
                   /\ UNCHANGED <<symbol_data_list, k>>
              ELSE /\ symbol_data_list' = [symbol_data_list EXCEPT ![k] = a.rec]
                   /\ k' = k + 1
                   /\ UNCHANGED <<pc, error>>
    /\ UNCHANGED <<read_from_cache, num_symbols, cache, market, idx, i, gap,
                   backToBack, contacted, fresh, arg, ret, overwrote>>

\* analyse_symbols returns; generate_report follows
AnalyseDone ==
    /\ pc = "analyse"
    /\ k > Len(symbol_data_list)
    /\ pc' = "done"
    /\ UNCHANGED <<read_from_cache, num_symbols, cache, market, idx, i,
                   symbol_data_list, k, gap, backToBack, contacted, error,
                   fresh, arg, ret, overwrote>>

Next ==
    \/ ReadCache
    \/ GetSymbols
    \/ GetSymbolsRaises
    \/ LoopHead
    \/ ValidateSleep
    \/ History
    \/ GetInfo
    \/ Download
    \/ FetchSleep
    \/ CacheAndReturn
    \/ AnalyseStep
    \/ AnalyseDone

Spec == Init /\ [][Next]_vars

---------------------------------------------------------------------------
(* Properties *)

Min(a, b) == IF a < b THEN a ELSE b

\* get_and_cache_data has returned its batch, which is kept in fresh
AnalysisErrors == {"ValueError", "KeyError", "OSError"}

Returned == ~read_from_cache /\ (pc \in {"analyse", "done"} \/ error \in AnalysisErrors)

\* the listed symbols that validate and yield historical data, in order
UsableIndices == SelectSeq([j \in 1..Len(market) |-> j], LAMBDA j : Usable(market[j]))

\* C1: the batch get_and_cache_data returns is no longer than num_symbols and
\* no shorter than min(num_symbols, number of candidates that validate and
\* yield historical data)
C1_BatchLengthBounds ==
    Returned =>
        /\ Len(fresh) <= num_symbols
        /\ Len(fresh) >= Min(num_symbols, Len(UsableIndices))

C1_Witness ==
    /\ Returned
    /\ Len(UsableIndices) > num_symbols
    /\ Len(fresh) = num_symbols
    /\ num_symbols >= 2

\* C2: a candidate whose validation or fetch fails is skipped and never ends
\* the run: no exception of a provider call leaves get_and_cache_data, and the
\* returned batch is exactly the first num_symbols usable candidates, in
\* candidate order
C2_FailuresAreSkipped ==
    /\ (pc = "raised" /\ ~read_from_cache) =>
          error \in {"FinnhubAPIException"} \cup AnalysisErrors
    /\ Returned =>
          LET want == SubSeq(UsableIndices, 1, Min(num_symbols, Len(UsableIndices)))
          IN  fresh = [j \in 1..Len(want) |->
                          SymbolData(want[j], market[want[j]].hist, Zero, Zero)]

\* [A usable, B not usable, C usable] with a target of 2 gives [A, C]
C2_Witness ==
    /\ Returned
    /\ num_symbols = 2
    /\ Len(market) = 3
    /\ Usable(market[1]) /\ ~Usable(market[2]) /\ Usable(market[3])
    /\ Len(fresh) = 2
    /\ fresh[1].symbol_info = 1 /\ fresh[2].symbol_info = 3

\* C3: a load after a save returns the batch that was saved, whatever an
\* earlier save had left in the file
C3_SaveLoadRoundTrip ==
    pc = "loaded" => ret.raised = "" /\ ret.value = arg

C3_Witness ==
    /\ pc = "loaded"
    /\ overwrote
    /\ Len(arg) = 2
    /\ ret.value = arg

\* C4: asked to read a cache that is missing or unreadable, get_symbol_data
\* raises the load's error: it returns no batch and issues no provider call
C4_CacheFailureSurfaces ==
    (read_from_cache /\ load_cached_symbol_data(cache).raised # "") =>
        /\ pc \in {"main", "raised"}
        /\ pc = "raised" => error = load_cached_symbol_data(cache).raised
        /\ ~contacted
        /\ market = <<>>
        /\ symbol_data_list = <<>> /\ fresh = <<>>

C4_Witness ==
    /\ read_from_cache
    /\ pc = "raised"
    /\ error = "FileNotFoundError"
    /\ ~cache.exists

\* the analysis has started on the batch held in memory
Analysing == pc \in {"analyse", "done"} \/ error \in AnalysisErrors

\* analyse_symbols stopped with an exception at record j
AbortedAt(j) == pc = "raised" /\ error \in AnalysisErrors /\ k = j

HasDefaults(rec) == rec.r2 = Zero /\ rec.cagr = Zero

\* C5 (as claimed): a record whose series has fewer than 2 usable points is a
\* non-fatal outcome: the analysis does not stop at it and the record keeps
\* its default trend fields
C5_InsufficientDataNonFatal ==
    Analysing =>
        \A j \in 1..Len(symbol_data_list) :
            Len(dropna(symbol_data_list[j].symbol_hist_data)) < 2 =>
                /\ ~AbortedAt(j)
                /\ HasDefaults(symbol_data_list[j])

\* C6 (as claimed): a record whose series holds a price <= 0 is a non-fatal
\* outcome: the analysis does not stop at it and the record keeps its default
\* trend fields
C6_InvalidPriceNonFatal ==
    Analysing =>
        \A j \in 1..Len(symbol_data_list) :
            (\E t \in 1..Len(symbol_data_list[j].symbol_hist_data) :
                LET x == symbol_data_list[j].symbol_hist_data[t]
                IN  IsNum(x) /\ x.n <= 0) =>
                /\ ~AbortedAt(j)
                /\ HasDefaults(symbol_data_list[j])

\* C7: an analysable series is classified exponential exactly when its R^2
\* reaches the threshold and its fitted slope is positive (never with a slope
\* <= 0), and a predicted series comes back exactly with a true classification
C7_ClassificationRule ==
    pc = "returned" =>
        LET ys == log_prices_of(dropna(arg))
            r2 == r2_score(ys, Predict(ys))
        IN  /\ ret.is_exponential <=>
                  (Geq(r2, r2_threshold) /\ Slope(ys).n > 0)
            /\ Slope(ys).n <= 0 => ~ret.is_exponential
            /\ ret.is_exponential <=> ret.predicted # <<>>
            /\ ret.is_exponential => Len(ret.predicted) = Len(ys) /\ ret.r2 = r2

\* a decaying series with a perfect fit is not classified
C7_Witness ==
    /\ pc = "returned"
    /\ arg = Decay
    /\ ~ret.is_exponential
    /\ r2_score(log_prices_of(arg), Predict(log_prices_of(arg))) = Num(1)
    /\ Slope(log_prices_of(arg)).n < 0

\* C8 (as claimed): every call to the market-data provider is issued after a
\* delay of REQUEST_DELAY since the previous one
C8_DelayBetweenCalls == ~backToBack

\* C9 (as claimed): the batch written to the cache is the final batch, the
\* trend fields being attached before caching: at the end of a run that
\* acquired and cached its batch, the records in memory equal the records in
\* the cache
C9_MemoryEqualsCache ==
    (pc = "done" /\ ~read_from_cache) =>
        /\ load_cached_symbol_data(cache).raised = ""
        /\ symbol_data_list = load_cached_symbol_data(cache).value

\* C10: analysis leaves every record not classified exponential with r2 = 0
\* and cagr = 0, writes r2 (>= the threshold) and cagr only to records
\* classified exponential, changes no other field, and neither adds, removes
\* nor reorders records
C10_AnalysisFrame ==
    Analysing =>
        /\ Len(symbol_data_list) = Len(fresh)
        /\ \A j \in 1..Len(fresh) :
              LET rec == symbol_data_list[j]
                  exp == determine_exp_trend(fresh[j].symbol_hist_data).is_exponential
              IN  /\ rec.symbol_info = fresh[j].symbol_info
                  /\ rec.symbol_hist_data = fresh[j].symbol_hist_data
                  /\ (~exp \/ j >= k) => HasDefaults(rec)
                  /\ (exp /\ j < k) =>
                        /\ Geq(rec.r2, r2_threshold)
                        /\ rec.cagr = determine_cagr(fresh[j].symbol_hist_data,
                                                     HIST_DATA_YEARS)

\* a finished analysis of a batch holding a classified and an unclassified
\* record
C10_Witness ==
    /\ pc = "done"
    /\ \E j \in 1..Len(symbol_data_list) :
          /\ symbol_data_list[j].symbol_hist_data = Growth
          /\ symbol_data_list[j].r2 = Num(1)
          /\ symbol_data_list[j].cagr = Num(3)
    /\ \E j \in 1..Len(symbol_data_list) :
          /\ symbol_data_list[j].symbol_hist_data = Single
          /\ HasDefaults(symbol_data_list[j])

=============================================================================
